---- MODULE Spec2Model ----
(***************************************************************************)
(* Model of discord-rpc/src/lib.rs: the DiscordHandler handle, the mpsc    *)
(* channel it owns the Sender of, and the background thread running        *)
(* DiscordHandler::start on the Receiver.                                  *)
(***************************************************************************)
EXTENDS Integers, Sequences, FiniteSets, TLC

\* ---------------------------------------------------------------- bounds
MaxUpdates == 3      \* update_config calls made on one handle
NumConfigs == 2      \* distinct Config values
NumOffsets == 2      \* distinct ram_offset values
MaxPending == 2      \* messages already pending in InitOps

Configs == 1..NumConfigs
Offsets == 1..NumOffsets

\* ------------------------------------------------------------- messages
NoConfig == 0

Dropping == [type |-> "Dropping", config |-> NoConfig]

UpdateConfigMsg(c) == [type |-> "UpdateConfig", config |-> c]

Message == {Dropping} \cup {UpdateConfigMsg(c) : c \in Configs}

NoMsg == [type |-> "None", config |-> NoConfig]

BoundedSeq(S, n) == UNION {[1..k -> S] : k \in 0..n}

Last(s) == s[Len(s)]

VARIABLES
    handle,      \* "none" | "alive" | "dropping" (drop() ran, tx not yet released) | "dropped"
    result,      \* what new returned: "none" | "Ok" | "ThreadSpawn"
    txAlive,     \* the Sender endpoint exists
    rxAlive,     \* the Receiver endpoint exists
    queue,       \* messages in flight in the channel
    wstate,      \* worker: "NotSpawned" | "Waiting" | "Applying" | "Terminated"
    cur,         \* message bound by the match arm being executed
    config,      \* start's config parameter (the worker's held config)
    ram_offset,  \* start's ram_offset parameter
    outcome,     \* what start returned: "none" | "Ok" | "Err" | "Unknown"
    spawned,     \* number of worker threads ever spawned
    calls,       \* number of update_config calls made
    sent,        \* history: messages enqueued, in send order
    observed,    \* history: messages returned by rx.recv(), in receive order
    applied,     \* history: payloads whose UpdateConfig arm has completed
    diag,        \* history: diagnostics emitted through tracing
    initConfig,  \* history: config argument of new
    initOffset   \* history: ram_offset argument of new

vars == <<handle, result, txAlive, rxAlive, queue, wstate, cur, config,
          ram_offset, outcome, spawned, calls, sent, observed, applied, diag,
          initConfig, initOffset>>

\* ------------------------------------------------------ channel semantics
\* std::sync::mpsc::channel() is unbounded: send never waits for room.
SendBlocksWhenFull(q) == Len(q) >= 1

SendBlocks(q) == FALSE

\* Sender::send: enqueues at the back, or fails when the Receiver is gone.
ChanSendFront(q, alive, m) ==
    IF alive THEN [ok |-> TRUE, q |-> <<m>> \o q]
             ELSE [ok |-> FALSE, q |-> q]

ChanSend(q, alive, m) ==
    IF alive THEN [ok |-> TRUE, q |-> Append(q, m)]
             ELSE [ok |-> FALSE, q |-> q]

\* Receiver::recv takes the oldest pending message.
PopLast(q) == [msg |-> q[Len(q)], rest |-> SubSeq(q, 1, Len(q) - 1)]

PopStopFirst(q) ==
    IF \E i \in 1..Len(q) : q[i].type = "Dropping"
      THEN [msg |-> Dropping,
            rest |-> SelectSeq(q, LAMBDA m : m.type # "Dropping")]
      ELSE [msg |-> Head(q), rest |-> Tail(q)]

Pop(q) == [msg |-> Head(q), rest |-> Tail(q)]

\* Receiver::recv returns (a message, or Err when every Sender is gone and
\* nothing is pending); otherwise it blocks.
RecvReady(q, senderAlive) == q # <<>> \/ ~senderAlive

\* ---------------------------------------------------------------- handle
\* new: `.map_err(ThreadSpawn)?` then `Ok(Self { tx })`.
NewResultIgnoresSpawnError(spawnOk) ==
    [handle |-> "alive", result |-> "Ok", tx |-> TRUE]

NewResult(spawnOk) ==
    IF spawnOk THEN [handle |-> "alive", result |-> "Ok", tx |-> TRUE]
               ELSE [handle |-> "none", result |-> "ThreadSpawn", tx |-> FALSE]

\* update_config: the `if let Err(e)` block around the send.
UpdateDiagSilent(ok) == <<>>

UpdateDiag(ok) == IF ok THEN <<>> ELSE <<"ErrUpdate">>

\* drop: the info line, then the `if let Err(e)` block around the send.
DropDiagAlwaysWarn(ok) == <<"InfoDrop", "WarnNotify">>

DropDiag(ok) == <<"InfoDrop">> \o (IF ok THEN <<>> ELSE <<"WarnNotify">>)

\* ---------------------------------------------------------------- worker
\* The match arms of start: Dropping breaks the loop, UpdateConfig does not.
BreaksNever(m) == FALSE

BreaksAlways(m) == TRUE

Breaks(m) == m.type = "Dropping"

\* The UpdateConfig arm is `{}`: its `config` binding shadows start's
\* parameter inside the arm only, so the held value is what it was.
HeldAfter(held, c) == held

\* Nor does the arm touch start's ram_offset parameter.
OffsetAfterClobbered(off, c) == c

OffsetAfter(off, c) == off

\* The thread closure of new: logs when start returned Err.
ThreadLogsNothing(res) == <<>>

ThreadLogs(res) == IF res = "Err" THEN <<"ErrThread">> ELSE <<>>

\* The thread closure ends when start returns; the thread is not restarted.
AfterStartRespawn(n) == [wstate |-> "Waiting", spawned |-> n + 1]

AfterStart(n) == [wstate |-> "Terminated", spawned |-> n]

\* start returns res: rx goes out of scope (pending messages are discarded)
\* and the closure finishes.
Exit(res) ==
    LET a == AfterStart(spawned) IN
    /\ wstate' = a.wstate
    /\ spawned' = a.spawned
    /\ outcome' = res
    /\ rxAlive' = FALSE
    /\ queue' = <<>>
    /\ cur' = NoMsg
    /\ diag' = diag \o ThreadLogs(res)

\* ------------------------------------------------------------------ Init
Init ==
    /\ handle = "none"
    /\ result = "none"
    /\ txAlive = FALSE
    /\ rxAlive = FALSE
    /\ queue = <<>>
    /\ wstate = "NotSpawned"
    /\ cur = NoMsg
    /\ config = NoConfig
    /\ ram_offset = 0
    /\ outcome = "none"
    /\ spawned = 0
    /\ calls = 0
    /\ sent = <<>>
    /\ observed = <<>>
    /\ applied = <<>>
    /\ diag = <<>>
    /\ initConfig = NoConfig
    /\ initOffset = 0

\* --------------------------------------------------------------- actions
\* DiscordHandler::new(ram_offset, config)
New ==
    /\ handle = "none"
    /\ result = "none"
    /\ \E o \in Offsets, c \in Configs, spawnOk \in BOOLEAN :
         LET r == NewResult(spawnOk) IN
         /\ diag' = Append(diag, "InfoInit")
         /\ handle' = r.handle
         /\ result' = r.result
         /\ txAlive' = r.tx
         /\ rxAlive' = spawnOk
         /\ wstate' = IF spawnOk THEN "Waiting" ELSE "NotSpawned"
         /\ spawned' = IF spawnOk THEN spawned + 1 ELSE spawned
         /\ config' = IF spawnOk THEN c ELSE config
         /\ ram_offset' = IF spawnOk THEN o ELSE ram_offset
         /\ initConfig' = c
         /\ initOffset' = o
    /\ queue' = <<>>
    /\ UNCHANGED <<cur, outcome, calls, sent, observed, applied>>

\* DiscordHandler::update_config(config)
UpdateConfig ==
    /\ handle = "alive"
    /\ calls < MaxUpdates
    /\ ~SendBlocks(queue)
    /\ \E c \in Configs :
         LET s == ChanSend(queue, rxAlive, UpdateConfigMsg(c)) IN
         /\ queue' = s.q
         /\ sent' = IF s.q # queue THEN Append(sent, UpdateConfigMsg(c)) ELSE sent
         /\ diag' = diag \o UpdateDiag(s.ok)
    /\ calls' = calls + 1
    /\ UNCHANGED <<handle, result, txAlive, rxAlive, wstate, cur, config,
                   ram_offset, outcome, spawned, observed, applied,
                   initConfig, initOffset>>

\* <DiscordHandler as Drop>::drop
Drop ==
    /\ handle = "alive"
    /\ ~SendBlocks(queue)
    /\ LET s == ChanSend(queue, rxAlive, Dropping) IN
         /\ queue' = s.q
         /\ sent' = IF s.q # queue THEN Append(sent, Dropping) ELSE sent
         /\ diag' = diag \o DropDiag(s.ok)
    /\ handle' = "dropping"
    /\ UNCHANGED <<result, txAlive, rxAlive, wstate, cur, config, ram_offset,
                   outcome, spawned, calls, observed, applied, initConfig,
                   initOffset>>

\* The field tx is released once drop() has returned.
DropGlue ==
    /\ handle = "dropping"
    /\ handle' = "dropped"
    /\ txAlive' = FALSE
    /\ UNCHANGED <<result, rxAlive, queue, wstate, cur, config, ram_offset,
                   outcome, spawned, calls, sent, observed, applied, diag,
                   initConfig, initOffset>>

\* start: `match rx.recv()?` up to the selection of the arm
Recv ==
    /\ wstate = "Waiting"
    /\ RecvReady(queue, txAlive)
    /\ IF queue # <<>>
         THEN LET p == Pop(queue) IN
              /\ observed' = Append(observed, p.msg)
              /\ IF Breaks(p.msg)
                   THEN Exit("Ok")
                   ELSE /\ wstate' = "Applying"
                        /\ cur' = p.msg
                        /\ queue' = p.rest
                        /\ UNCHANGED <<rxAlive, outcome, spawned, diag>>
         ELSE /\ observed' = observed
              /\ Exit("Err")
    /\ UNCHANGED <<handle, result, txAlive, config, ram_offset, calls, sent,
                   applied, initConfig, initOffset>>

\* start: the body of the UpdateConfig arm, then back to the top of the loop
Apply ==
    /\ wstate = "Applying"
    /\ config' = HeldAfter(config, cur.config)
    /\ applied' = Append(applied, cur.config)
    /\ wstate' = "Waiting"
    /\ cur' = NoMsg
    /\ ram_offset' = OffsetAfter(ram_offset, cur.config)
    /\ UNCHANGED <<handle, result, txAlive, rxAlive, queue,
                   outcome, spawned, calls, sent, observed, diag, initConfig,
                   initOffset>>

Next == New \/ UpdateConfig \/ Drop \/ DropGlue \/ Recv \/ Apply

\* The program: one construction, then the handle's life.
Spec == Init /\ [][Next]_vars

\* The program with the worker thread scheduled fairly.
FairSpec == Spec /\ WF_vars(Recv) /\ WF_vars(Apply)

\* The operations taken on their own: besides the program's initial state,
\* a handle and a worker over a channel in any state its endpoints admit
\* (Sender held or released, Receiver held or released, any pending
\* messages).
InitOps ==
    \/ Init
    \/ \E h \in {"alive", "dropped"}, w \in {"Waiting", "Terminated"},
          q \in BoundedSeq(Message, MaxPending), c \in Configs, o \in Offsets :
         /\ handle = h
         /\ result = "Ok"
         /\ txAlive = (h = "alive")
         /\ rxAlive = (w = "Waiting")
         /\ queue = (IF w = "Waiting" THEN q ELSE <<>>)
         /\ wstate = w
         /\ cur = NoMsg
         /\ config = c
         /\ ram_offset = o
         /\ outcome = (IF w = "Terminated" THEN "Unknown" ELSE "none")
         /\ spawned = 1
         /\ calls = 0
         /\ sent = (IF w = "Waiting" THEN q ELSE <<>>)
         /\ observed = <<>>
         /\ applied = <<>>
         /\ diag = <<"InfoInit">>
         /\ initConfig = c
         /\ initOffset = o

SpecOps == InitOps /\ [][Next]_vars

TypeOK ==
    /\ handle \in {"none", "alive", "dropping", "dropped"}
    /\ result \in {"none", "Ok", "ThreadSpawn"}
    /\ txAlive \in BOOLEAN
    /\ rxAlive \in BOOLEAN
    /\ queue \in Seq(Message)
    /\ wstate \in {"NotSpawned", "Waiting", "Applying", "Terminated"}
    /\ cur \in Message \cup {NoMsg}
    /\ config \in Configs \cup {NoConfig}
    /\ ram_offset \in Offsets \cup {0}
    /\ outcome \in {"none", "Ok", "Err", "Unknown"}
    /\ spawned \in 0..1
    /\ calls \in 0..MaxUpdates

\* ------------------------------------------------------------ properties
IsPrefix(a, b) == Len(a) <= Len(b) /\ \A i \in 1..Len(a) : a[i] = b[i]

PayloadsOf(s) == [i \in 1..Len(s) |-> s[i].config]

StopObserved == \E i \in 1..Len(observed) : observed[i] = Dropping

\* C1: the worker receives and applies the UpdateConfig messages in exactly
\* the order update_config sent them: what it has received is a prefix of
\* what was sent, what it has applied is a prefix of the payloads sent, and
\* while the Receiver lives, received followed by pending is what was sent
\* (nothing reordered, lost or delivered twice).
C1_FifoOrder ==
    /\ IsPrefix(observed, sent)
    /\ IsPrefix(applied, PayloadsOf(sent))
    /\ rxAlive => observed \o queue = sent

\* C1 witness: two different configs were sent and both were applied.
C1_Witness ==
    /\ Len(applied) >= 2
    /\ applied[1] # applied[2]
    /\ handle = "alive"

\* C2: once the worker has received Dropping it is Terminated and stays
\* there: no later step receives or applies anything, and a Terminated
\* worker never becomes Waiting or Applying again.
C2_StopIsTerminal ==
    [][ /\ StopObserved' => wstate' = "Terminated"
        /\ wstate = "Terminated" =>
             /\ wstate' = "Terminated"
             /\ observed' = observed
             /\ applied' = applied
             /\ config' = config ]_vars

\* C2 witness: the worker stopped on Dropping after applying an update, and
\* the caller went on running afterwards.
C2_Witness ==
    /\ StopObserved
    /\ wstate = "Terminated"
    /\ Len(applied) >= 1
    /\ handle = "dropped"

\* C3: after the handle is destroyed the worker eventually reaches
\* Terminated, when the worker thread is scheduled fairly.
C3_DestroyedLeadsToTerminated ==
    (handle \in {"dropping", "dropped"}) ~> (wstate = "Terminated")

\* C3 witness: the handle was destroyed after two updates and the worker
\* has terminated.
C3_Witness ==
    /\ handle = "dropped"
    /\ calls >= 2
    /\ Len(applied) = calls
    /\ wstate = "Terminated"

\* C4: update_config and destruction are enabled whenever the handle is
\* there to call them on, whatever the worker's state and however many
\* messages are pending (update_config up to the bound on calls).
C4_NonBlocking ==
    /\ (handle = "alive" /\ calls < MaxUpdates) => ENABLED UpdateConfig
    /\ handle = "alive" => ENABLED Drop
    /\ handle = "dropping" => ENABLED DropGlue

\* C4 witness: the handle was destroyed while the worker was busy applying
\* a message and two more messages were pending.
C4_Witness ==
    /\ handle = "dropping"
    /\ wstate = "Applying"
    /\ Len(queue) >= 2

\* C5: the worker's held config is the payload of the most recently applied
\* UpdateConfig, and the construction-time config when none was applied.
C5_HeldConfigIsLastApplied ==
    wstate # "NotSpawned" =>
        config = (IF applied # <<>> THEN Last(applied) ELSE initConfig)

Count(s, x) == Cardinality({i \in 1..Len(s) : s[i] = x})

\* start has returned because rx.recv() failed, not because of Dropping.
RecvFailed ==
    /\ wstate = "Terminated"
    /\ outcome \in {"Ok", "Err"}
    /\ ~StopObserved

C7_SendFailureOnlyLogs ==
    [][ (handle = "alive" /\ ~rxAlive) =>
          /\ queue' = queue
          /\ sent' = sent
          /\ result' = result
          /\ txAlive' = txAlive
          /\ rxAlive' = rxAlive
          /\ UNCHANGED <<wstate, observed, applied, config, outcome>>
          /\ calls' # calls =>
               /\ handle' = "alive"
               /\ diag' = Append(diag, "ErrUpdate")
          /\ handle' # handle =>
               /\ handle' = "dropping"
               /\ diag' = diag \o <<"InfoDrop", "WarnNotify">> ]_vars

\* C7 witness: two update_config calls and then the drop all found the
\* Receiver gone.
C7_Witness ==
    /\ handle = "dropped"
    /\ Count(diag, "ErrUpdate") >= 2
    /\ Count(diag, "WarnNotify") = 1
    /\ sent = <<>>

\* new has run and no worker thread was spawned.
SpawnFailed == diag # <<>> /\ spawned = 0

\* C8: when spawning fails, new returns ThreadSpawn, there is no handle and
\* no worker, both channel endpoints are released, nothing was ever
\* enqueued, and the only diagnostic is the one new emitted before spawning.
C8_SpawnFailureLeavesNothing ==
    SpawnFailed =>
        /\ result = "ThreadSpawn"
        /\ handle = "none"
        /\ wstate = "NotSpawned"
        /\ outcome = "none"
        /\ ~txAlive
        /\ ~rxAlive
        /\ queue = <<>>
        /\ sent = <<>>
        /\ observed = <<>>
        /\ diag = <<"InfoInit">>

\* C8 witness: a construction whose spawn failed.
C8_Witness ==
    /\ SpawnFailed
    /\ result = "ThreadSpawn"
    /\ initConfig \in Configs

\* C9: a constructed handle has exactly one worker thread over its whole
\* life: one is spawned by new, and none is ever spawned after it, also
\* not once the worker has terminated.
C9_ExactlyOneWorker ==
    /\ spawned <= 1
    /\ handle # "none" => spawned = 1
    /\ result = "Ok" => spawned = 1
    /\ wstate # "NotSpawned" <=> spawned = 1

\* C9 witness: the worker of a destroyed handle has terminated.
C9_Witness ==
    /\ wstate = "Terminated"
    /\ handle = "dropped"
    /\ spawned = 1
    /\ Len(observed) >= 2

\* C10: construct, k update_config calls, destroy: the worker has then
\* received exactly the k UpdateConfig messages followed by one Dropping,
\* applied k configs, start returned Ok, and the diagnostics are exactly
\* the two lifecycle lines of new and drop.
C10_CleanRun ==
    wstate = "Terminated" =>
        /\ handle \in {"dropping", "dropped"}
        /\ Len(observed) = calls + 1
        /\ \A i \in 1..calls : observed[i].type = "UpdateConfig"
        /\ observed[calls + 1] = Dropping
        /\ observed = sent
        /\ applied = SubSeq(PayloadsOf(observed), 1, calls)
        /\ outcome = "Ok"
        /\ diag = <<"InfoInit", "InfoDrop">>

\* C10 witness: one update_config with a config other than the initial one,
\* then the drop, and the worker has exited.
C10_Witness ==
    /\ wstate = "Terminated"
    /\ handle = "dropped"
    /\ calls = 1
    /\ applied # <<initConfig>>

\* C10 witness for k = 0 is the same run without the update.
C10_WitnessNoUpdate ==
    /\ wstate = "Terminated"
    /\ handle = "dropped"
    /\ calls = 0

\* Position of the first Dropping in s, or one past its end.
FirstStop(s) ==
    IF \E i \in 1..Len(s) : s[i] = Dropping
      THEN CHOOSE i \in 1..Len(s) :
               s[i] = Dropping /\ \A j \in 1..(i - 1) : s[j] # Dropping
      ELSE Len(s) + 1

BeforeStop(s) == SubSeq(s, 1, FirstStop(s) - 1)

\* C11: with update_config calls landing in the queue around a Dropping,
\* destruction is never blocked, the worker receives nothing after the
\* first Dropping, and an UpdateConfig queued behind it is never applied.
C11_NothingBehindStopIsApplied ==
    /\ IsPrefix(observed, Append(BeforeStop(sent), Dropping))
    /\ IsPrefix(applied, PayloadsOf(BeforeStop(sent)))
    /\ handle = "alive" => ENABLED Drop
    /\ handle = "dropping" => ENABLED DropGlue

\* C11 witness: two update_config calls put their messages behind a
\* Dropping, the handle was destroyed, and the worker stopped having
\* applied neither.
C11_Witness ==
    /\ handle = "dropped"
    /\ wstate = "Terminated"
    /\ StopObserved
    /\ calls >= 2
    /\ Len(sent) >= FirstStop(sent) + 2
    /\ sent[FirstStop(sent) + 1].type = "UpdateConfig"
    /\ sent[FirstStop(sent) + 2].type = "UpdateConfig"
    /\ applied = <<>>

\* C12: Dropping is not preemptive: when the worker has terminated on
\* Dropping, every UpdateConfig sent ahead of it has been received and its
\* arm has run to completion; messages are handled one at a time, the
\* arm of one finishing before the next is received.
C12_StopNotPreemptive ==
    /\ (wstate = "Terminated" /\ StopObserved) =>
         /\ applied = PayloadsOf(BeforeStop(sent))
         /\ cur = NoMsg
    /\ wstate = "Applying" =>
         /\ cur = Last(observed)
         /\ Len(applied) = Len(observed) - 1
    /\ wstate = "Waiting" => Len(applied) = Len(observed)

\* C12 witness: three updates were sent ahead of Dropping and all three were
\* applied before the worker exited on it.
C12_Witness ==
    /\ wstate = "Terminated"
    /\ StopObserved
    /\ Len(applied) >= 3
    /\ handle = "dropping"

\* The worker leaves its loop only from its wait, on a Dropping or on a
\* failed receive; the UpdateConfig arm always returns to the wait.
ExitOnlyAtRecv ==
    [][ /\ (wstate # "Terminated" /\ wstate' = "Terminated") =>
             /\ wstate = "Waiting"
             /\ \/ (queue # <<>> /\ Head(queue) = Dropping /\ outcome' = "Ok")
                \/ (queue = <<>> /\ ~txAlive /\ outcome' = "Err")
        /\ (wstate = "Applying" /\ wstate' # "Applying") =>
             /\ wstate' = "Waiting"
             /\ diag' = diag ]_vars

\* C14: the ram_offset the worker holds is the one passed to new, after any
\* update_config calls, any applied messages and the destruction; every
\* step of the handle and every step of the worker after construction
\* leaves it as it was.
C14_OffsetNeverChanges ==
    [][ /\ wstate' # "NotSpawned" => ram_offset' = initOffset'
        /\ wstate # "NotSpawned" =>
             (ram_offset' = ram_offset /\ initOffset' = initOffset) ]_vars

\* C14 witness: two updates were applied, the handle was destroyed and the
\* worker exited, still holding the construction-time offset.
C14_Witness ==
    /\ handle = "dropped"
    /\ wstate = "Terminated"
    /\ Len(applied) = 2
    /\ applied[1] # initOffset
    /\ ram_offset = initOffset

\* C15: exactly one Dropping is ever enqueued, by drop and by nothing else,
\* and it is the last message placed on the channel; so when the worker has
\* terminated on it, everything that was sent has been received.
C15_OneStopSentLast ==
    /\ Count(sent, Dropping) <= 1
    /\ Count(sent, Dropping) = 1 <=> handle \in {"dropping", "dropped"}
    /\ Count(sent, Dropping) = 1 => Last(sent) = Dropping
    /\ Count(queue, Dropping) = 1 => Last(queue) = Dropping
    /\ Len(sent) <= calls + 1
    /\ (wstate = "Terminated" /\ StopObserved) =>
         /\ observed = sent
         /\ queue = <<>>

\* C15 witness: the worker has terminated on the Dropping that drop enqueued
\* behind two updates, before the caller released tx.
C15_Witness ==
    /\ wstate = "Terminated"
    /\ StopObserved
    /\ handle = "dropping"
    /\ txAlive
    /\ Len(sent) = 3

\* C16: the worker never terminates while its handle is alive: the Receiver
\* exists at every send of update_config and of drop, so no send fails and
\* neither the 'Failed to update' error nor the 'Failed to notify' warning
\* is ever emitted.
C16_NoSendEverFails ==
    /\ handle = "alive" => (rxAlive /\ wstate \in {"Waiting", "Applying"})
    /\ wstate = "Terminated" => handle \in {"dropping", "dropped"}
    /\ Count(diag, "ErrUpdate") = 0
    /\ Count(diag, "WarnNotify") = 0
    /\ Len(sent) = calls + (IF handle \in {"dropping", "dropped"} THEN 1 ELSE 0)

\* C16 witness: three update_config calls were made and applied, then drop
\* sent its Dropping to a live Receiver.
C16_Witness ==
    /\ handle = "dropping"
    /\ rxAlive
    /\ calls >= 3
    /\ Len(applied) = calls
    /\ queue = <<Dropping>>
    /\ diag = <<"InfoInit", "InfoDrop">>

\* C17: the worker's receive never fails: the Sender is released only after
\* drop has enqueued Dropping, and the worker returns on Dropping without
\* receiving again, so start only ever returns Ok and the thread's
\* 'encountered an error' diagnostic is never emitted.
C17_RecvNeverFails ==
    /\ outcome \in {"none", "Ok"}
    /\ Count(diag, "ErrThread") = 0
    /\ (result = "Ok" /\ ~txAlive) => Count(sent, Dropping) = 1
    /\ wstate = "Waiting" => (txAlive \/ queue # <<>>)
    /\ wstate = "Terminated" => (StopObserved /\ Last(observed) = Dropping)

\* C17 witness: the Sender has been released while the worker was still
\* applying an update, with Dropping pending behind it.
C17_Witness ==
    /\ handle = "dropped"
    /\ ~txAlive
    /\ wstate = "Applying"
    /\ queue # <<>>
    /\ Last(queue) = Dropping

====
